---- MODULE Spec2Model ----
(***************************************************************************)
(* A model of the TikTok Trend Hunter product-analysis pipeline:           *)
(*   analyzer.py  ProductAnalyzer (construction, _parse_response,          *)
(*                analyze_product)                                         *)
(*   scraper.py   TikTokShopScraper (scrape, fixture fallback)             *)
(*   models.py    ProductAnalysis validation                               *)
(*   main.py      the pipeline driver                                      *)
(*                                                                         *)
(* Texts are sequences of one-character strings.  A JSON value occurring   *)
(* in a text is one atomic token (a string such as "{full:85}") standing   *)
(* for the serialised value; JsonValue gives the value json.loads decodes  *)
(* it to.  No other character sequence of the alphabet is valid JSON.      *)
(***************************************************************************)
EXTENDS Integers, Sequences, FiniteSets, TLC

VARIABLES
    \* ---- main.py: the pipeline driver ----
    pc,                 \* position of main()
    ai_provider,        \* actor_input.ai_provider
    anthropic_key,      \* resolved credentials (input or environment)
    openai_key,
    openrouter_key,
    products,           \* result of scraper.scrape()
    analyzer,           \* the ProductAnalyzer object
    analyzed_products,  \* list built by the loop, sorted in place afterwards
    charges,            \* events issued through Actor.charge
    pushed,             \* records pushed through Actor.push_data
    gen_calls,          \* number of generation-backend calls started
    gen_returned,       \* number of those calls that returned or raised
    scrape_calls,       \* number of scraper.scrape() calls made
    error,              \* exception that left main(), "none" if none
    \* ---- analyzer.py exercised on its own ----
    a_pc,               \* "ready" | "parsed" | "analyzed"
    a_self,             \* the ProductAnalyzer under test
    a_reply,            \* outcome of the generation call
    a_parsed,           \* outcome of _parse_response(reply text)
    a_result,           \* outcome of analyze_product
    \* ---- scraper.py exercised on its own ----
    s_pc,               \* "ready" | "returned"
    s_self,             \* the TikTokShopScraper (max_products, min_sales)
    s_live,             \* outcome of the live source
    s_result,           \* outcome of scrape()
    \* ---- models.py and the prompt builder exercised on their own ----
    m_pc,               \* "ready" | the operation that ran
    m_in,               \* its input
    m_out               \* its result

vars == <<pc, ai_provider, anthropic_key, openai_key, openrouter_key, products,
          analyzer, analyzed_products, charges, pushed, gen_calls,
          gen_returned, scrape_calls, error,
          a_pc, a_self, a_reply, a_parsed, a_result,
          s_pc, s_self, s_live, s_result, m_pc, m_in, m_out>>

pipeline_vars == <<pc, ai_provider, anthropic_key, openai_key, openrouter_key,
                   products, analyzer, analyzed_products, charges, pushed,
                   gen_calls, gen_returned, scrape_calls, error>>
analyzer_vars == <<a_pc, a_self, a_reply, a_parsed, a_result>>
scraper_vars == <<s_pc, s_self, s_live, s_result>>
models_vars == <<m_pc, m_in, m_out>>

-----------------------------------------------------------------------------
(* Python string helpers, on sequences of characters.                      *)

Whitespace == {" ", "\n"}

RECURSIVE lstrip(_)
lstrip(s) ==
    IF s # <<>> /\ Head(s) \in Whitespace THEN lstrip(Tail(s)) ELSE s

RECURSIVE rstrip(_)
rstrip(s) ==
    IF s # <<>> /\ s[Len(s)] \in Whitespace
    THEN rstrip(SubSeq(s, 1, Len(s) - 1))
    ELSE s

strip(s) == rstrip(lstrip(s))

startswith(s, prefix) ==
    Len(s) >= Len(prefix) /\ SubSeq(s, 1, Len(prefix)) = prefix

endswith(s, suffix) ==
    Len(s) >= Len(suffix)
    /\ SubSeq(s, Len(s) - Len(suffix) + 1, Len(s)) = suffix

\* s[k:]  (k >= 0)
SliceFrom(s, k) == SubSeq(s, k + 1, Len(s))

\* s[:-k]  (k > 0)
DropLast(s, k) == SubSeq(s, 1, Len(s) - k)

\* s[:k]  (k >= 0)
Take(s, k) == SubSeq(s, 1, IF k < Len(s) THEN k ELSE Len(s))

\* The backquote character (U+0060), which a TLA+ string cannot hold.
Backquote == "BQ"

Fence == <<Backquote, Backquote, Backquote>>
FenceJson == Fence \o <<"j", "s", "o", "n">>

-----------------------------------------------------------------------------
(* JSON values.  Every value is a record of one shape: kind tells what the *)
(* value is; for an object, keys is the set of members present and bad the *)
(* members whose value has a type pydantic rejects for that field.         *)

StrFields == {"why_winning", "problem_solved", "target_audience"}
ListFields == {"emotional_triggers", "marketing_angles", "quality_flags",
               "ad_hooks"}
AllFields == {"virality_score"} \cup StrFields \cup ListFields

JsonObject(score, keys, bad) ==
    [kind |-> "object", keys |-> keys, bad |-> bad,
     virality_score |-> score,
     why_winning |-> "Solves a daily annoyance",
     problem_solved |-> "Messy meal prep",
     emotional_triggers |-> <<"relief", "pride">>,
     marketing_angles |-> <<"time saver">>,
     quality_flags |-> <<"battery fades">>,
     target_audience |-> "Busy home cooks",
     ad_hooks |-> <<"Stop scrolling">>]

JsonOther(kind) ==
    [kind |-> kind, keys |-> {}, bad |-> {},
     virality_score |-> 0, why_winning |-> "", problem_solved |-> "",
     emotional_triggers |-> <<>>, marketing_angles |-> <<>>,
     quality_flags |-> <<>>, target_audience |-> "", ad_hooks |-> <<>>]

ObjectTokens == {"{full:0}", "{full:50}", "{full:85}", "{full:100}",
                 "{full:101}", "{full:-1}", "{no_why}", "{no_score}",
                 "{no_hooks}", "{why:7}", "{}"}
NonObjectTokens == {"[1,2]", "42", "'text'", "null"}
JsonTokens == ObjectTokens \cup NonObjectTokens

JsonValue(tok) ==
    CASE tok = "{full:0}" -> JsonObject(0, AllFields, {})
      [] tok = "{full:50}" -> JsonObject(50, AllFields, {})
      [] tok = "{full:85}" -> JsonObject(85, AllFields, {})
      [] tok = "{full:100}" -> JsonObject(100, AllFields, {})
      [] tok = "{full:101}" -> JsonObject(101, AllFields, {})
      [] tok = "{full:-1}" -> JsonObject(-1, AllFields, {})
      [] tok = "{no_why}" -> JsonObject(85, AllFields \ {"why_winning"}, {})
      [] tok = "{no_score}" -> JsonObject(0, AllFields \ {"virality_score"}, {})
      [] tok = "{no_hooks}" -> JsonObject(85, AllFields \ {"ad_hooks"}, {})
      [] tok = "{why:7}" -> JsonObject(85, AllFields, {"why_winning"})
      [] tok = "{}" -> JsonObject(0, {}, {})
      [] tok = "[1,2]" -> JsonOther("array")
      [] tok = "42" -> JsonOther("number")
      [] tok = "'text'" -> JsonOther("string")
      [] tok = "null" -> JsonOther("null")

\* json.loads: JSON whitespace around exactly one value, anything else is a
\* JSONDecodeError.
json_loads(s) ==
    LET t == strip(s) IN
    IF Len(t) = 1 /\ t[1] \in JsonTokens
    THEN [ok |-> TRUE, data |-> JsonValue(t[1])]
    ELSE [ok |-> FALSE, data |-> JsonOther("null")]

-----------------------------------------------------------------------------
(* models.py: ProductAnalysis                                              *)

Analysis(score, why, problem, triggers, angles, flags, audience, hooks) ==
    [virality_score |-> score, why_winning |-> why,
     problem_solved |-> problem, emotional_triggers |-> triggers,
     marketing_angles |-> angles, quality_flags |-> flags,
     target_audience |-> audience, ad_hooks |-> hooks]

NoAnalysis == Analysis(-1, "", "", <<>>, <<>>, <<>>, "", <<>>)

ScoreMin == 0
ScoreMax == 100

RequiredFields == {"virality_score", "why_winning", "problem_solved",
                   "target_audience"}

\* The range with its two ends left out.
ScoreInRangeExclusive(score) == score > ScoreMin /\ score < ScoreMax

\* Field(ge=0, le=100)
ScoreInRange(score) == score >= ScoreMin /\ score <= ScoreMax

\* ProductAnalysis(**data) for a dict: pydantic validation.  raised is
\* "none" or "ValidationError" (a ValueError).  List fields absent from the
\* data take their default, the empty list.
ProductAnalysis(data) ==
    IF RequiredFields \subseteq data.keys
       /\ data.bad \cap data.keys = {}
       /\ ScoreInRange(data.virality_score)
    THEN [raised |-> "none",
          value |-> Analysis(
              data.virality_score, data.why_winning, data.problem_solved,
              IF "emotional_triggers" \in data.keys
                  THEN data.emotional_triggers ELSE <<>>,
              IF "marketing_angles" \in data.keys
                  THEN data.marketing_angles ELSE <<>>,
              IF "quality_flags" \in data.keys
                  THEN data.quality_flags ELSE <<>>,
              data.target_audience,
              IF "ad_hooks" \in data.keys THEN data.ad_hooks ELSE <<>>)]
    ELSE [raised |-> "ValidationError", value |-> NoAnalysis]

-----------------------------------------------------------------------------
(* analyzer.py: ProductAnalyzer                                            *)

\* A credential is None, the empty string or a non-empty string.
KeyNone == "<None>"
KeyValues == {KeyNone, "", "sk-live"}

\* Python truthiness of an optional string: `not key`.
Falsy(key) == key \in {KeyNone, ""}

\* `a or b` on optional strings.
OrElse(a, b) == IF Falsy(a) THEN b ELSE a

KnownProviders == {"anthropic", "openai", "openrouter"}
Providers == KnownProviders \cup {"gemini"}

NoAnalyzer ==
    [provider |-> "", anthropic_client |-> FALSE, openai_client |-> FALSE]

\* ProductAnalyzer.__init__: raised is "none" or "ValueError".
ProductAnalyzerInit(provider, anthropic_api_key, openai_api_key, openrouter_api_key) ==
    CASE provider = "anthropic" ->
            IF Falsy(anthropic_api_key)
            THEN [raised |-> "ValueError", self |-> NoAnalyzer]
            ELSE [raised |-> "none",
                  self |-> [provider |-> provider, anthropic_client |-> TRUE,
                            openai_client |-> FALSE]]
      [] provider = "openai" ->
            IF Falsy(openai_api_key)
            THEN [raised |-> "ValueError", self |-> NoAnalyzer]
            ELSE [raised |-> "none",
                  self |-> [provider |-> provider, anthropic_client |-> FALSE,
                            openai_client |-> TRUE]]
      [] provider = "openrouter" ->
            IF Falsy(openrouter_api_key)
            THEN [raised |-> "ValueError", self |-> NoAnalyzer]
            ELSE [raised |-> "none",
                  self |-> [provider |-> provider, anthropic_client |-> FALSE,
                            openai_client |-> TRUE]]
      [] OTHER -> [raised |-> "ValueError", self |-> NoAnalyzer]

\* The default returned when parsing fails (analyzer.py:118-127).
ParseFailureDefault ==
    Analysis(50, "Unable to analyze - AI response parsing failed", "Unknown",
             <<>>, <<>>, <<"Analysis incomplete">>, "General consumers", <<>>)

\* The default returned when the call fails (analyzer.py:165-174); the
\* explanation carries str(e).
CallFailureDefault(exc) ==
    Analysis(0,
             CASE exc = "Timeout" -> "Analysis failed: Request timed out."
               [] exc = "AuthError" -> "Analysis failed: invalid x-api-key"
               [] exc = "RateLimit" -> "Analysis failed: rate limit exceeded"
               [] exc = "IndexError" ->
                      "Analysis failed: list index out of range"
               [] exc = "TypeError" ->
                      "Analysis failed: argument after ** must be a mapping"
               [] exc = "AttributeError" ->
                      "Analysis failed: object has no attribute 'strip'"
               [] exc = "ValueError" ->
                      "Analysis failed: No AI client configured"
               [] OTHER -> "Analysis failed: ",
             "Unknown", <<>>, <<>>, <<"Analysis failed">>, "Unknown", <<>>)

\* Fence stripping of _parse_response (analyzer.py:105-111).
StripFences(response_text) ==
    LET t0 == strip(response_text)
        t1 == IF startswith(t0, FenceJson) THEN SliceFrom(t0, 7) ELSE t0
        t2 == IF startswith(t1, Fence) THEN SliceFrom(t1, 3) ELSE t1
        t3 == IF endswith(t2, Fence) THEN DropLast(t2, 3) ELSE t2
    IN  strip(t3)

\* The exceptions the except clause of _parse_response catches:
\* (json.JSONDecodeError, ValueError); pydantic's ValidationError is a
\* ValueError, a TypeError is not.
ParseCaught == {"JSONDecodeError", "ValueError", "ValidationError"}

\* _parse_response: raised is "none" or the exception that leaves it.
_parse_response(response_text) ==
    LET j == json_loads(StripFences(response_text))
        built == ProductAnalysis(j.data)
        exc == IF ~j.ok THEN "JSONDecodeError"
               ELSE IF j.data.kind # "object" THEN "TypeError"
               ELSE built.raised
    IN  IF exc = "none" THEN [raised |-> "none", value |-> built.value]
        ELSE IF exc \in ParseCaught
        THEN [raised |-> "none", value |-> ParseFailureDefault]
        ELSE [raised |-> exc, value |-> NoAnalysis]

\* Outcome of one generation-backend call: it raises, or it returns a reply
\* whose text content may be None (chat-completions backends only).
Reply(raised, content_none, text) ==
    [raised |-> raised, content_none |-> content_none, text |-> text]

BackendErrors == {"Timeout", "AuthError", "RateLimit", "IndexError"}

\* Whether analyze_product reaches a backend call (analyzer.py:134-156).
HasClient(self) ==
    \/ self.provider = "anthropic" /\ self.anthropic_client
    \/ self.provider = "openai" /\ self.openai_client
    \/ self.provider = "openrouter" /\ self.openai_client

\* A narrower except clause, `except ValueError`: backend errors escape.
AnalyzeCaughtValueErrorOnly == {"ValueError", "JSONDecodeError", "ValidationError"}

\* The exceptions the except clause of analyze_product catches: Exception.
AnalyzeCaught ==
    BackendErrors \cup {"TypeError", "ValueError", "AttributeError",
                        "JSONDecodeError", "ValidationError"}

\* analyze_product: raised is "none" or the exception that leaves it.  The
\* reply text is response.content[0].text (anthropic; a None there fails in
\* _parse_response with an AttributeError) or message.content or "" (the
\* chat-completions backends).
analyze_product(self, reply) ==
    LET response_text ==
            IF self.provider # "anthropic" /\ reply.content_none
            THEN <<>> ELSE reply.text
        parsed == _parse_response(response_text)
        exc == IF ~HasClient(self) THEN "ValueError"
               ELSE IF reply.raised # "none" THEN reply.raised
               ELSE IF self.provider = "anthropic" /\ reply.content_none
               THEN "AttributeError"
               ELSE parsed.raised
    IN  IF exc = "none" THEN [raised |-> "none", value |-> parsed.value]
        ELSE IF exc \in AnalyzeCaught
        THEN [raised |-> "none", value |-> CallFailureDefault(exc)]
        ELSE [raised |-> exc, value |-> NoAnalysis]

-----------------------------------------------------------------------------
(* Response texts the analyzer is exercised on.                            *)

MaxRawLen == 2

RawAlphabet == {Backquote, "j", " ", "x", "{full:85}"}

RECURSIVE SeqsUpTo(_, _)
SeqsUpTo(S, n) ==
    IF n = 0 THEN {<<>>}
    ELSE LET shorter == SeqsUpTo(S, n - 1)
         IN  shorter \cup {Append(t, c) : t \in shorter, c \in S}

RawTexts == SeqsUpTo(RawAlphabet, MaxRawLen)

TagJson == <<"j", "s", "o", "n">>
Tags == {<<>>, TagJson, <<"j", "s">>, <<"j", "s", "o", "n", "c">>,
         <<"p", "y", "t", "h", "o", "n">>}
Gaps == {<<>>, <<"\n">>}
Closers == {<<>>, Fence}
Trails == {<<>>, <<" ">>}

\* lead whitespace, opening fence with a language tag, the JSON value,
\* closing fence, trailing whitespace
FencedTexts ==
    {lead \o Fence \o tag \o g1 \o <<tok>> \o g2 \o close \o trail :
        lead \in Gaps, tag \in Tags, g1 \in Gaps, tok \in JsonTokens,
        g2 \in Gaps, close \in Closers, trail \in Trails}

UnfencedTexts ==
    {lead \o <<tok>> \o g2 \o close \o trail :
        lead \in Gaps, tok \in JsonTokens, g2 \in Gaps, close \in Closers,
        trail \in Trails}

Texts == FencedTexts \cup UnfencedTexts \cup RawTexts

Replies ==
    {Reply(e, FALSE, <<>>) : e \in BackendErrors}
    \cup {Reply("none", TRUE, <<>>)}
    \cup {Reply("none", FALSE, t) : t \in Texts}

Analyzers ==
    {ProductAnalyzerInit(p, "sk-live", "sk-live", "sk-live").self :
        p \in KnownProviders}

NoParse == [raised |-> "unset", value |-> NoAnalysis]

InitAnalyzer ==
    /\ a_pc = "ready"
    /\ a_self \in Analyzers
    /\ a_reply \in Replies
    /\ a_parsed = NoParse
    /\ a_result = NoParse

\* The reply text handed to _parse_response on its own.
ParseResponse ==
    /\ a_pc = "ready"
    /\ a_reply.raised = "none"
    /\ ~a_reply.content_none
    /\ a_parsed' = _parse_response(a_reply.text)
    /\ a_pc' = "parsed"
    /\ UNCHANGED <<a_self, a_reply, a_result>>
    /\ UNCHANGED <<pipeline_vars, scraper_vars, models_vars>>

\* analyze_product run on the reply.
AnalyzeProduct ==
    /\ a_pc = "ready"
    /\ a_result' = analyze_product(a_self, a_reply)
    /\ a_pc' = "analyzed"
    /\ UNCHANGED <<a_self, a_reply, a_parsed>>
    /\ UNCHANGED <<pipeline_vars, scraper_vars, models_vars>>

-----------------------------------------------------------------------------
(* scraper.py: TikTokShopScraper                                           *)

\* original_price = None
NoPrice == -1

\* rating = None
NoRating == -1

\* None in an optional string field.
NoneStr == "<None>"

\* models.py: ProductData.  Prices are held in cents, ratings in tenths.
ProductData(product_id, product_title, product_url, price, original_price, sales_count, rating, review_count, shop_name, category, reviews, image_url) ==
    [product_id |-> product_id, product_title |-> product_title,
     product_url |-> product_url, price |-> price,
     original_price |-> original_price, sales_count |-> sales_count,
     rating |-> rating, review_count |-> review_count,
     shop_name |-> shop_name, category |-> category, reviews |-> reviews,
     image_url |-> image_url]

\* The fixture of _get_mock_data.
mock_products(category) ==
    << ProductData("mock_001", "Portable Blender USB Rechargeable",
           "https://tiktokshop.com/product/mock_001", 2499, 3999, 15420, 47,
           2341, "KitchenGadgetsPro", category,
           << "Perfect for my morning smoothies! So convenient for the office.",
              "Battery lasts all week, amazing quality for the price!",
              "Bought this for my gym bag, absolute game changer!",
              "My kids love making their own fruit drinks now.",
              "Wish I bought this sooner, makes healthy eating so easy!" >>,
           "https://example.com/blender.jpg"),
       ProductData("mock_002", "Electric Vegetable Chopper 3-in-1",
           "https://tiktokshop.com/product/mock_002", 3499, 4999, 8932, 45,
           1256, "HomeChefTools", category,
           << "Saves me so much time meal prepping!",
              "Finally, no more crying while cutting onions!",
              "The cleanup is super easy, dishwasher safe.",
              "Bought for my mom and she absolutely loves it.",
              "Great for making salsa and guacamole quickly." >>,
           "https://example.com/chopper.jpg"),
       ProductData("mock_003", "Silicone Stretch Lids Set of 12",
           "https://tiktokshop.com/product/mock_003", 1299, 1999, 25678, 48,
           4521, "EcoKitchenStore", category,
           << "No more plastic wrap! These are incredible.",
              "Fit perfectly on all my bowls and containers.",
              "Such a simple solution, why didn't I buy these sooner?",
              "Great for keeping food fresh, very stretchy.",
              "Eco-friendly and actually works great!" >>,
           "https://example.com/lids.jpg"),
       ProductData("mock_004", "Magnetic Spice Rack Organizer",
           "https://tiktokshop.com/product/mock_004", 2899, 4499, 6234, 46,
           892, "OrganizeMyHome", category,
           << "Finally organized my tiny kitchen!",
              "The magnets are super strong, no falling jars.",
              "Looks so aesthetic on my fridge.",
              "Space saver for small apartments!",
              "Great gift idea for home cooks." >>,
           "https://example.com/spicerack.jpg"),
       ProductData("mock_005", "Air Fryer Liners Disposable 100pcs",
           "https://tiktokshop.com/product/mock_005", 999, 1499, 42156, 49,
           7823, "AirFryerEssentials", category,
           << "Makes cleanup a breeze, love these!",
              "No more scrubbing my air fryer basket.",
              "Great quality and perfect fit for my Ninja.",
              "Reordering for the third time, can't live without them.",
              "Food doesn't stick anymore, highly recommend!" >>,
           "https://example.com/liners.jpg") >>

Scraper(category, max_products, min_sales) ==
    [category |-> category, max_products |-> max_products,
     min_sales |-> min_sales]

\* The limit applied before the filter.
_get_mock_data_limit_first(self) ==
    SelectSeq(Take(mock_products(self.category), self.max_products),
              LAMBDA p : p.sales_count >= self.min_sales)

\* _get_mock_data: filter by min_sales, then limit.
_get_mock_data(self) ==
    LET filtered ==
            SelectSeq(mock_products(self.category),
                      LAMBDA p : p.sales_count >= self.min_sales)
    IN  Take(filtered, self.max_products)

\* A member of a raw item: absent, an integer, or a value int() rejects.
Absent == [st |-> "absent", n |-> 0]
Unparsable == [st |-> "bad", n |-> 0]
IntField(n) == [st |-> "int", n |-> n]

\* A raw dataset item holding the members id and playCount or salesCount;
\* malformed stands for any other member that makes the ProductData
\* construction raise.
Item(id, playCount, salesCount, malformed) ==
    [id |-> id, playCount |-> playCount, salesCount |-> salesCount,
     malformed |-> malformed]

\* item.get("playCount", item.get("salesCount", 0))
SalesField(item) ==
    IF item.playCount.st # "absent" THEN item.playCount
    ELSE IF item.salesCount.st # "absent" THEN item.salesCount
    ELSE IntField(0)

\* The try body of _transform_actor_output raises for this item.
ItemRaises(item) == item.malformed \/ SalesField(item).st = "bad"

RECURSIVE TransformLoop(_, _, _)
TransformLoop(self, items, acc) ==
    IF items = <<>> THEN acc
    ELSE LET item == Head(items)
             product ==
                 ProductData(item.id, "Unknown", "", 0, NoPrice,
                             SalesField(item).n, NoRating, 0, NoneStr,
                             self.category, <<>>, NoneStr)
         IN  IF ~ItemRaises(item) /\ product.sales_count >= self.min_sales
             THEN TransformLoop(self, Tail(items), Append(acc, product))
             ELSE TransformLoop(self, Tail(items), acc)

\* _transform_actor_output
_transform_actor_output(self, items) ==
    Take(TransformLoop(self, items, <<>>), self.max_products)

\* Outcome of the live source: no token, a failed run, an exception raised
\* by the client, or the dataset items.
Live(kind, items) == [kind |-> kind, items |-> items]

\* scrape_with_actor: raised is "none" or the exception that leaves it.
scrape_with_actor(self, live) ==
    CASE live.kind = "no_token" ->
            [raised |-> "none", value |-> _get_mock_data(self)]
      [] live.kind = "run_failed" ->
            [raised |-> "none", value |-> _get_mock_data(self)]
      [] live.kind = "exception" ->
            [raised |-> "none", value |-> _get_mock_data(self)]
      [] live.kind = "items" ->
            [raised |-> "none",
             value |-> _transform_actor_output(self, live.items)]

\* scrape
scrape(self, live) == scrape_with_actor(self, live)

MaxProducts == 6
MaxItems == 3

MinSalesValues == {0, 100, 10000, 50000}

Categories == {"Kitchen Gadgets", "Beauty Products"}

RawItems ==
    { Item("7001", IntField(20000), Absent, FALSE),
      Item("7002", Absent, IntField(500), FALSE),
      Item("7003", Absent, Absent, FALSE),
      Item("7004", Unparsable, IntField(90000), FALSE),
      Item("7005", IntField(60000), Absent, TRUE) }

LiveOutcomes ==
    {Live(k, <<>>) : k \in {"no_token", "run_failed", "exception"}}
    \cup {Live("items", items) : items \in SeqsUpTo(RawItems, MaxItems)}

NoScrape == [raised |-> "unset", value |-> <<>>]

InitScraper ==
    /\ s_pc = "ready"
    /\ s_self \in {Scraper(c, m, ms) :
                       c \in Categories, m \in 1..MaxProducts,
                       ms \in MinSalesValues}
    /\ s_live \in LiveOutcomes
    /\ s_result = NoScrape

\* scrape() run against the live outcome.
Scrape ==
    /\ s_pc = "ready"
    /\ s_result' = scrape(s_self, s_live)
    /\ s_pc' = "returned"
    /\ UNCHANGED <<s_self, s_live>>
    /\ UNCHANGED <<pipeline_vars, analyzer_vars, models_vars>>

-----------------------------------------------------------------------------
(* models.py: AnalyzedProduct                                              *)

\* discount_percentage = None
NoDiscount == -1

\* The discount cut down to a tenth instead of rounded.
RoundTenthsTruncating(num, den, tie_up) == (num * 10) \div den

\* round(x, 1) of the float nearest to num/den >= 0, in tenths: the nearest
\* tenth.  When num/den lies exactly halfway between two tenths the float
\* that stands for it lies a little above or below, so the result is either
\* neighbour; tie_up tells which.
RoundTenths(num, den, tie_up) ==
    LET q == (num * 10) \div den
        r == (num * 10) % den
    IN  IF 2 * r > den \/ (2 * r = den /\ tie_up) THEN q + 1 ELSE q

\* from_product_and_analysis; discount_percentage is held in tenths of a
\* percent: round((1 - price / original_price) * 100, 1).
from_product_and_analysis(product, analysis, tie_up) ==
    LET discount ==
            IF product.original_price # NoPrice
               /\ product.original_price # 0
               /\ product.original_price > product.price
            THEN RoundTenths((product.original_price - product.price) * 100,
                             product.original_price, tie_up)
            ELSE NoDiscount
    IN  [product_id |-> product.product_id,
         product_title |-> product.product_title,
         product_url |-> product.product_url,
         price |-> product.price,
         original_price |-> product.original_price,
         discount_percentage |-> discount,
         sales_count |-> product.sales_count,
         rating |-> product.rating,
         review_count |-> product.review_count,
         shop_name |-> product.shop_name,
         category |-> product.category,
         image_url |-> product.image_url,
         virality_score |-> analysis.virality_score,
         why_winning |-> analysis.why_winning,
         problem_solved |-> analysis.problem_solved,
         emotional_triggers |-> analysis.emotional_triggers,
         marketing_angles |-> analysis.marketing_angles,
         quality_flags |-> analysis.quality_flags,
         target_audience |-> analysis.target_audience,
         ad_hooks |-> analysis.ad_hooks]

-----------------------------------------------------------------------------
(* models.py: ActorInput                                                   *)

\* The raw input: the members given, and their values.
RawInput(given, category, maxProducts, aiProvider, minSalesCount) ==
    [given |-> given, category |-> category, maxProducts |-> maxProducts,
     aiProvider |-> aiProvider, minSalesCount |-> minSalesCount]

DefaultMaxProducts == 10
MaxProductsGe == 1
MaxProductsLe == 50
DefaultMinSalesCount == 100

NoActorInput ==
    [category |-> "", max_products |-> 0, ai_provider |-> "",
     anthropic_api_key |-> KeyNone, openai_api_key |-> KeyNone,
     openrouter_api_key |-> KeyNone, openrouter_model |-> NoneStr,
     include_review_analysis |-> FALSE, min_sales_count |-> 0]

\* ActorInput(**raw_input): a member not given takes its default;
\* max_products must lie in 1..50 and min_sales_count be >= 0.  raised is
\* "none" or "ValidationError".
ActorInput(raw) ==
    LET max_products == IF "maxProducts" \in raw.given
                        THEN raw.maxProducts ELSE DefaultMaxProducts
        min_sales_count == IF "minSalesCount" \in raw.given
                           THEN raw.minSalesCount ELSE DefaultMinSalesCount
    IN  IF max_products >= MaxProductsGe /\ max_products <= MaxProductsLe
           /\ min_sales_count >= 0
        THEN [raised |-> "none",
              value |->
                  [category |-> IF "category" \in raw.given
                                THEN raw.category ELSE "Kitchen Gadgets",
                   max_products |-> max_products,
                   ai_provider |-> IF "aiProvider" \in raw.given
                                   THEN raw.aiProvider ELSE "openrouter",
                   anthropic_api_key |-> KeyNone,
                   openai_api_key |-> KeyNone,
                   openrouter_api_key |-> KeyNone,
                   openrouter_model |-> NoneStr,
                   include_review_analysis |-> TRUE,
                   min_sales_count |-> min_sales_count]]
        ELSE [raised |-> "ValidationError", value |-> NoActorInput]

-----------------------------------------------------------------------------
(* analyzer.py: the prompt builder                                         *)

\* product.reviews[:10]
ReviewLimit == 10

\* str() of a float held in tenths, as a text.
RenderTenths(n) == <<ToString(n \div 10), ".", ToString(n % 10)>>

\* "\n".join([f"- {review}" for review in reviews])
RECURSIVE JoinReviewLines(_)
JoinReviewLines(reviews) ==
    IF reviews = <<>> THEN <<>>
    ELSE IF Len(reviews) = 1 THEN <<"- ", Head(reviews)>>
    ELSE <<"- ", Head(reviews), "\n">> \o JoinReviewLines(Tail(reviews))

\* _format_prompt: the values put into the slots of ANALYSIS_PROMPT.
\* `x or default` takes the default for None and for a falsy x (0.0, "").
_format_prompt(product) ==
    LET reviews_text == JoinReviewLines(Take(product.reviews, ReviewLimit))
    IN  [title |-> product.product_title,
         price |-> product.price,
         sales_count |-> product.sales_count,
         rating |-> IF product.rating = NoRating \/ product.rating = 0
                    THEN <<"N/A">> ELSE RenderTenths(product.rating),
         review_count |-> product.review_count,
         category |-> IF product.category = NoneStr \/ product.category = ""
                      THEN "Unknown" ELSE product.category,
         reviews |-> IF reviews_text = <<>>
                     THEN <<"No reviews available">> ELSE reviews_text]

-----------------------------------------------------------------------------
(* main.py: the pipeline driver                                            *)

\* list.sort(key=lambda x: x.virality_score, reverse=True): a stable sort,
\* descending.  x goes after every element whose score is >= its own.
RECURSIVE InsertDesc(_, _)
InsertDesc(sorted, x) ==
    IF sorted = <<>> THEN <<x>>
    ELSE IF Head(sorted).virality_score >= x.virality_score
    THEN <<Head(sorted)>> \o InsertDesc(Tail(sorted), x)
    ELSE <<x>> \o sorted

RECURSIVE SortLoop(_, _)
SortLoop(rest, sorted) ==
    IF rest = <<>> THEN sorted
    ELSE SortLoop(Tail(rest), InsertDesc(sorted, Head(rest)))

RECURSIVE Reversed(_)
Reversed(list) ==
    IF list = <<>> THEN <<>>
    ELSE Append(Reversed(Tail(list)), Head(list))

\* An ascending stable sort followed by list.reverse(): ties come out in
\* reverse order.
SortAscendingThenReverse(list) == SortLoop(Reversed(list), <<>>)

SortByViralityDesc(list) == SortLoop(list, <<>>)

\* Actor.charge(event_name="product-analyzed", count=1)
ChargeEvent == [event_name |-> "product-analyzed", count |-> 1]

\* The validation written `key is None`: an empty credential passes.
KeyValidationNoneOnly(provider, anthropic, openai, openrouter) ==
    \/ provider = "anthropic" /\ anthropic = KeyNone
    \/ provider = "openai" /\ openai = KeyNone
    \/ provider = "openrouter" /\ openrouter = KeyNone

\* The API-key validation of main() (main.py:36-41): TRUE when it raises.
KeyValidationFails(provider, anthropic, openai, openrouter) ==
    \/ provider = "anthropic" /\ Falsy(anthropic)
    \/ provider = "openai" /\ Falsy(openai)
    \/ provider = "openrouter" /\ Falsy(openrouter)

MaxRunProducts == 3

RunMinSales == {100, 10000, 50000}

RunLiveOutcomes ==
    { Live("no_token", <<>>), Live("run_failed", <<>>),
      Live("exception", <<>>), Live("items", <<>>),
      Live("items", << Item("7001", IntField(20000), Absent, FALSE),
                       Item("7004", Unparsable, IntField(90000), FALSE),
                       Item("7002", Absent, IntField(500), FALSE) >>) }

RunReplies ==
    { Reply("Timeout", FALSE, <<>>),
      Reply("none", FALSE, FenceJson \o <<"\n", "{full:85}", "\n">> \o Fence),
      Reply("none", FALSE, <<"x", " ", "x">>) }

Init ==
    /\ pc = "start"
    /\ ai_provider = ""
    /\ anthropic_key = KeyNone
    /\ openai_key = KeyNone
    /\ openrouter_key = KeyNone
    /\ products = <<>>
    /\ analyzer = NoAnalyzer
    /\ analyzed_products = <<>>
    /\ charges = <<>>
    /\ pushed = <<>>
    /\ gen_calls = 0
    /\ gen_returned = 0
    /\ scrape_calls = 0
    /\ error = "none"
    /\ a_pc = "off"
    /\ a_self = NoAnalyzer
    /\ a_reply = Reply("none", FALSE, <<>>)
    /\ a_parsed = NoParse
    /\ a_result = NoParse
    /\ s_pc = "off"
    /\ s_self = Scraper("", 1, 0)
    /\ s_live = Live("no_token", <<>>)
    /\ s_result = NoScrape
    /\ m_pc = "off"
    /\ m_in = <<>>
    /\ m_out = <<>>

\* main.py:22-41: read the input, resolve the credentials (input value or
\* environment variable), validate the selected provider's credential.
Configure ==
    /\ pc = "start"
    /\ \E given \in {{}, {"aiProvider"}}, named \in Providers,
          in_anthropic \in KeyValues, env_anthropic \in KeyValues,
          in_openai \in KeyValues, env_openai \in KeyValues,
          in_openrouter \in KeyValues, env_openrouter \in KeyValues :
          LET actor_input ==
                  ActorInput(RawInput(given, "", 0, named, 0)).value
              provider == actor_input.ai_provider
              a == OrElse(in_anthropic, env_anthropic)
              o == OrElse(in_openai, env_openai)
              r == OrElse(in_openrouter, env_openrouter)
          IN  /\ ai_provider' = provider
              /\ anthropic_key' = a
              /\ openai_key' = o
              /\ openrouter_key' = r
              /\ IF KeyValidationFails(provider, a, o, r)
                 THEN error' = "ValueError" /\ pc' = "failed"
                 ELSE error' = "none" /\ pc' = "scrape"
    /\ UNCHANGED <<products, analyzer, analyzed_products, charges, pushed,
                   gen_calls, gen_returned, scrape_calls>>
    /\ UNCHANGED <<analyzer_vars, scraper_vars, models_vars>>

\* main.py:43-65: scrape, return when nothing was found, otherwise build the
\* analyzer.
ScrapeProducts ==
    /\ pc = "scrape"
    /\ \E max_products \in 1..MaxRunProducts, min_sales \in RunMinSales,
          live \in RunLiveOutcomes :
          LET found == scrape(Scraper(ActorInput(RawInput({}, "", 0, "", 0))
                                          .value.category,
                                      max_products, min_sales), live)
              built == ProductAnalyzerInit(ai_provider, anthropic_key,
                                           openai_key, openrouter_key)
          IN  IF found.raised # "none"
              THEN /\ error' = found.raised
                   /\ pc' = "failed"
                   /\ UNCHANGED <<products, analyzer>>
              ELSE /\ products' = found.value
                   /\ IF found.value = <<>>
                      THEN pc' = "done" /\ UNCHANGED <<analyzer, error>>
                      ELSE IF built.raised # "none"
                      THEN /\ error' = built.raised
                           /\ pc' = "failed"
                           /\ UNCHANGED analyzer
                      ELSE /\ analyzer' = built.self
                           /\ pc' = "analyze"
                           /\ UNCHANGED error
    /\ scrape_calls' = scrape_calls + 1
    /\ UNCHANGED <<ai_provider, anthropic_key, openai_key, openrouter_key,
                   analyzed_products, charges, pushed, gen_calls,
                   gen_returned>>
    /\ UNCHANGED <<analyzer_vars, scraper_vars, models_vars>>

\* The next generation call started while the previous product's charge is
\* still pending.
StartGenerationEager ==
    /\ pc \in {"analyze", "charge"}
    /\ Len(analyzed_products) < Len(products)
    /\ gen_calls' = IF HasClient(analyzer) THEN gen_calls + 1 ELSE gen_calls
    /\ pc' = "generating"
    /\ UNCHANGED <<ai_provider, anthropic_key, openai_key, openrouter_key,
                   products, analyzer, analyzed_products, charges, pushed,
                   gen_returned, scrape_calls, error>>
    /\ UNCHANGED <<analyzer_vars, scraper_vars, models_vars>>

\* main.py:68-71, analyzer.py:131-156: analyze_product is entered for the
\* next product in retrieval order, the prompt is built and the backend
\* call is made; main() waits for it.
StartGeneration ==
    /\ pc = "analyze"
    /\ gen_calls' = IF HasClient(analyzer) THEN gen_calls + 1 ELSE gen_calls
    /\ pc' = "generating"
    /\ UNCHANGED <<ai_provider, anthropic_key, openai_key, openrouter_key,
                   products, analyzer, analyzed_products, charges, pushed,
                   gen_returned, scrape_calls, error>>
    /\ UNCHANGED <<analyzer_vars, scraper_vars, models_vars>>

\* analyzer.py:134-174, main.py:71-73: the backend call returns or raises,
\* the reply is interpreted, the analysis is combined with the product and
\* appended.
AnalyzeNext ==
    /\ pc = "generating"
    /\ \E reply \in RunReplies, tie_up \in BOOLEAN :
          LET product == products[Len(analyzed_products) + 1]
              analysis == analyze_product(analyzer, reply)
          IN  IF analysis.raised # "none"
              THEN /\ error' = analysis.raised
                   /\ pc' = "failed"
                   /\ UNCHANGED analyzed_products
              ELSE /\ analyzed_products' =
                          Append(analyzed_products,
                                 from_product_and_analysis(
                                     product, analysis.value, tie_up))
                   /\ pc' = "charge"
                   /\ UNCHANGED error
    /\ gen_returned' = gen_calls
    /\ UNCHANGED <<ai_provider, anthropic_key, openai_key, openrouter_key,
                   products, analyzer, charges, pushed, gen_calls,
                   scrape_calls>>
    /\ UNCHANGED <<analyzer_vars, scraper_vars, models_vars>>

\* The charge issued only for a product whose analysis did not fail.
ChargeProductGenuineOnly ==
    /\ pc = "charge"
    /\ charges' =
           IF analyzed_products[Len(analyzed_products)].quality_flags
                  = <<"Analysis failed">>
           THEN charges ELSE Append(charges, ChargeEvent)
    /\ IF Len(analyzed_products) < Len(products)
       THEN pc' = "analyze" /\ UNCHANGED analyzed_products
       ELSE /\ analyzed_products' = SortByViralityDesc(analyzed_products)
            /\ pc' = "push"
    /\ UNCHANGED <<ai_provider, anthropic_key, openai_key, openrouter_key,
                   products, analyzer, pushed, gen_calls, gen_returned,
                   scrape_calls, error>>
    /\ UNCHANGED <<analyzer_vars, scraper_vars, models_vars>>

\* main.py:77-83: Actor.charge succeeds; the loop goes on or, after the
\* last product, the list is sorted in place.
ChargeProduct ==
    /\ pc = "charge"
    /\ charges' = Append(charges, ChargeEvent)
    /\ IF Len(analyzed_products) < Len(products)
       THEN pc' = "analyze" /\ UNCHANGED analyzed_products
       ELSE /\ analyzed_products' = SortByViralityDesc(analyzed_products)
            /\ pc' = "push"
    /\ UNCHANGED <<ai_provider, anthropic_key, openai_key, openrouter_key,
                   products, analyzer, pushed, gen_calls, gen_returned,
                   scrape_calls, error>>
    /\ UNCHANGED <<analyzer_vars, scraper_vars, models_vars>>

\* main.py:77: Actor.charge raises; the exception leaves main().
ChargeFails ==
    /\ pc = "charge"
    /\ error' = "ChargeError"
    /\ pc' = "failed"
    /\ UNCHANGED <<ai_provider, anthropic_key, openai_key, openrouter_key,
                   products, analyzer, analyzed_products, charges, pushed,
                   gen_calls, gen_returned, scrape_calls>>
    /\ UNCHANGED <<analyzer_vars, scraper_vars, models_vars>>

\* main.py:86-98: Actor.push_data succeeds for the next record; after the
\* last one the summary is logged and main() returns.
PushNext ==
    /\ pc = "push"
    /\ pushed' = Append(pushed, analyzed_products[Len(pushed) + 1])
    /\ pc' = IF Len(pushed) + 1 = Len(analyzed_products)
             THEN "done" ELSE "push"
    /\ UNCHANGED <<ai_provider, anthropic_key, openai_key, openrouter_key,
                   products, analyzer, analyzed_products, charges, gen_calls,
                   gen_returned, scrape_calls, error>>
    /\ UNCHANGED <<analyzer_vars, scraper_vars, models_vars>>

\* main.py:87: Actor.push_data raises; the exception leaves main().
PushFails ==
    /\ pc = "push"
    /\ error' = "PushError"
    /\ pc' = "failed"
    /\ UNCHANGED <<ai_provider, anthropic_key, openai_key, openrouter_key,
                   products, analyzer, analyzed_products, charges, pushed,
                   gen_calls, gen_returned, scrape_calls>>
    /\ UNCHANGED <<analyzer_vars, scraper_vars, models_vars>>

Next ==
    \/ Configure
    \/ ScrapeProducts
    \/ StartGeneration
    \/ AnalyzeNext
    \/ ChargeProduct
    \/ ChargeFails
    \/ PushNext
    \/ PushFails

Spec == Init /\ [][Next]_vars

-----------------------------------------------------------------------------
(* The analyzer and the scraper exercised on their own inputs.             *)

PipelineIdle ==
    /\ pc = "off"
    /\ ai_provider = ""
    /\ anthropic_key = KeyNone
    /\ openai_key = KeyNone
    /\ openrouter_key = KeyNone
    /\ products = <<>>
    /\ analyzer = NoAnalyzer
    /\ analyzed_products = <<>>
    /\ charges = <<>>
    /\ pushed = <<>>
    /\ gen_calls = 0
    /\ gen_returned = 0
    /\ scrape_calls = 0
    /\ error = "none"

AnalyzerIdle ==
    /\ a_pc = "off"
    /\ a_self = NoAnalyzer
    /\ a_reply = Reply("none", FALSE, <<>>)
    /\ a_parsed = NoParse
    /\ a_result = NoParse

ScraperIdle ==
    /\ s_pc = "off"
    /\ s_self = Scraper("", 1, 0)
    /\ s_live = Live("no_token", <<>>)
    /\ s_result = NoScrape

NextAnalyzer ==
    \/ ParseResponse
    \/ AnalyzeProduct

ModelsIdle ==
    /\ m_pc = "off"
    /\ m_in = <<>>
    /\ m_out = <<>>

InitAnalyzerSpec ==
    PipelineIdle /\ ScraperIdle /\ ModelsIdle /\ InitAnalyzer

SpecAnalyzer == InitAnalyzerSpec /\ [][NextAnalyzer]_vars

NextScraper == Scrape

InitScraperSpec ==
    PipelineIdle /\ AnalyzerIdle /\ ModelsIdle /\ InitScraper

SpecScraper == InitScraperSpec /\ [][NextScraper]_vars

-----------------------------------------------------------------------------
(* The data models and the prompt builder exercised on their own inputs.   *)

\* Prices in cents; 27 of 48 is a discount of exactly 43.75 percent.
PriceValues == {0, 27, 1999, 2499, 3999}
OriginalPriceValues == {NoPrice, 0, 48, 1999, 2999, 3999}

CombineProducts ==
    {ProductData("p1", "Portable Blender", "https://tiktokshop.com/p1", price,
                 original_price, 15420, 47, 2341, "KitchenGadgetsPro",
                 "Kitchen Gadgets", <<"Love it">>, NoneStr) :
         price \in PriceValues, original_price \in OriginalPriceValues}

CombineAnalyses ==
    {ProductAnalysis(JsonObject(85, AllFields, {})).value,
     ParseFailureDefault}

\* How far the scores tried reach outside 0..100.
ScoreMargin == 50
ScoreValues == (ScoreMin - ScoreMargin)..(ScoreMax + ScoreMargin)

\* The longest review list tried.
MaxReviews == 12
RatingValues == {NoRating, 0, 1, 47, 50}
PromptCategories == {NoneStr, "", "Kitchen Gadgets"}
ReviewLists ==
    {[i \in 1..n |-> ToString(i)] : n \in 0..MaxReviews} \cup {<<"">>}

PromptProducts ==
    {ProductData("p1", "Portable Blender", "https://tiktokshop.com/p1", 2499,
                 3999, 15420, rating, 2341, "KitchenGadgetsPro", category,
                 reviews, NoneStr) :
         rating \in RatingValues, category \in PromptCategories,
         reviews \in ReviewLists}

RawInputs ==
    {RawInput(given, "Beauty Products", maxProducts, aiProvider, 0) :
         given \in SUBSET {"category", "maxProducts", "aiProvider"},
         maxProducts \in {0, 1, 25, 50, 51}, aiProvider \in Providers}

InitModels ==
    /\ m_pc = "ready"
    /\ m_in = <<>>
    /\ m_out = <<>>

\* AnalyzedProduct.from_product_and_analysis(product, analysis)
Combine ==
    /\ m_pc = "ready"
    /\ \E product \in CombineProducts, analysis \in CombineAnalyses,
          tie_up \in BOOLEAN :
          /\ m_in' = [product |-> product, analysis |-> analysis]
          /\ m_out' = from_product_and_analysis(product, analysis, tie_up)
    /\ m_pc' = "combined"
    /\ UNCHANGED <<pipeline_vars, analyzer_vars, scraper_vars>>

\* ProductAnalysis(virality_score=score, ...)
Construct ==
    /\ m_pc = "ready"
    /\ \E score \in ScoreValues, keys \in {RequiredFields, AllFields} :
          /\ m_in' = JsonObject(score, keys, {})
          /\ m_out' = ProductAnalysis(JsonObject(score, keys, {}))
    /\ m_pc' = "constructed"
    /\ UNCHANGED <<pipeline_vars, analyzer_vars, scraper_vars>>

\* analyzer._format_prompt(product)
FormatPrompt ==
    /\ m_pc = "ready"
    /\ \E product \in PromptProducts :
          /\ m_in' = product
          /\ m_out' = _format_prompt(product)
    /\ m_pc' = "formatted"
    /\ UNCHANGED <<pipeline_vars, analyzer_vars, scraper_vars>>

\* ActorInput(**raw_input)
ConstructActorInput ==
    /\ m_pc = "ready"
    /\ \E raw \in RawInputs :
          /\ m_in' = raw
          /\ m_out' = ActorInput(raw)
    /\ m_pc' = "configured"
    /\ UNCHANGED <<pipeline_vars, analyzer_vars, scraper_vars>>

NextModels ==
    \/ Combine
    \/ Construct
    \/ FormatPrompt
    \/ ConstructActorInput

InitModelsSpec ==
    PipelineIdle /\ AnalyzerIdle /\ ScraperIdle /\ InitModels

SpecModels == InitModelsSpec /\ [][NextModels]_vars

-----------------------------------------------------------------------------
(* Properties of the analyzer, checked under SpecAnalyzer.                 *)

\* The text analyze_product hands to _parse_response.
ReplyText ==
    IF a_reply.content_none THEN <<>> ELSE a_reply.text

\* After trimming and fence stripping the text is a single JSON object with
\* valid values for the required fields.
Interpretable(text) ==
    LET j == json_loads(StripFences(text))
    IN  /\ j.ok
        /\ j.data.kind = "object"
        /\ ProductAnalysis(j.data).raised = "none"

\* After trimming and fence stripping the text is valid JSON, not an object.
IsNonObjectJson(text) ==
    LET j == json_loads(StripFences(text))
    IN  j.ok /\ j.data.kind # "object"

\* The generation call returned a text (not None handed on as it is).
ReturnedText ==
    /\ a_reply.raised = "none"
    /\ ~(a_self.provider = "anthropic" /\ a_reply.content_none)

\* C1: _parse_response returns a valid ProductAnalysis (virality_score in
\* 0..100) for every response text and never lets an exception out.
C1_ParseAlwaysReturnsValid ==
    a_pc = "parsed" =>
        /\ a_parsed.raised = "none"
        /\ a_parsed.value.virality_score \in 0..100

\* C3: when the call succeeds but the text fails interpretation,
\* analyze_product returns the parse-failure default: score 50 and
\* quality_flags = ["Analysis incomplete"].
C3_UninterpretableGivesParseDefault ==
    (a_pc = "analyzed" /\ ReturnedText /\ ~Interpretable(ReplyText)) =>
        /\ a_result.raised = "none"
        /\ a_result.value.virality_score = 50
        /\ a_result.value.quality_flags = <<"Analysis incomplete">>

\* C4: when the generation call itself raises, analyze_product raises
\* nothing and returns the call-failure default: score 0 and
\* quality_flags = ["Analysis failed"].
C4_CallFailureGivesFailedDefault ==
    (a_pc = "analyzed" /\ a_reply.raised # "none") =>
        /\ a_result.raised = "none"
        /\ a_result.value.virality_score = 0
        /\ a_result.value.quality_flags = <<"Analysis failed">>

C4_Witness ==
    /\ a_pc = "analyzed"
    /\ a_reply.raised = "Timeout"
    /\ a_result.raised = "none"
    /\ a_result.value.quality_flags = <<"Analysis failed">>

\* C5: both degraded defaults have problem_solved "Unknown" and
\* target_audience "General consumers", empty emotional_triggers,
\* marketing_angles and ad_hooks, and exactly one quality flag, the sentinel
\* of the failure kind.  (Texts that are JSON but no object are left to C3.)
C5_DegradedDefaultsShape ==
    (a_pc = "analyzed"
     /\ \/ a_reply.raised # "none"
        \/ /\ ReturnedText
           /\ ~Interpretable(ReplyText)
           /\ ~IsNonObjectJson(ReplyText)) =>
        /\ a_result.value.problem_solved = "Unknown"
        /\ a_result.value.target_audience = "General consumers"
        /\ a_result.value.emotional_triggers = <<>>
        /\ a_result.value.marketing_angles = <<>>
        /\ a_result.value.ad_hooks = <<>>
        /\ a_result.value.quality_flags \in
               {<<"Analysis incomplete">>, <<"Analysis failed">>}

\* A JSON object with all eight fields and a score in 0..100.
FullValidTokens == {"{full:0}", "{full:50}", "{full:85}", "{full:100}"}

\* Such an object wrapped in a code fence (optional whitespace around, an
\* opening fence with or without a language tag on its line, a closing
\* fence), or not wrapped at all.
WellFormedTexts ==
    {lead \o Fence \o tag \o <<"\n", tok>> \o g2 \o Fence \o trail :
        lead \in Gaps, tag \in Tags, tok \in FullValidTokens, g2 \in Gaps,
        trail \in Trails}
    \cup {lead \o <<tok>> \o trail :
        lead \in Gaps, tok \in FullValidTokens, trail \in Trails}

\* The JSON token carried by a well-formed text.
TokenOf(text) == CHOOSE tok \in FullValidTokens :
                     \E k \in 1..Len(text) : text[k] = tok

\* C6: a valid eight-field JSON object, fenced with any language tag or
\* unfenced, is interpreted to the ProductAnalysis with those eight fields.
C6_FencedObjectIsInterpreted ==
    (a_pc = "parsed" /\ a_reply.text \in WellFormedTexts) =>
        LET data == JsonValue(TokenOf(a_reply.text))
        IN  /\ a_parsed.raised = "none"
            /\ a_parsed.value =
                   Analysis(data.virality_score, data.why_winning,
                            data.problem_solved, data.emotional_triggers,
                            data.marketing_angles, data.quality_flags,
                            data.target_audience, data.ad_hooks)

-----------------------------------------------------------------------------
(* Properties of the pipeline driver, checked under Spec.                  *)

\* Position in retrieval order of the product with this id (ids are
\* distinct within one retrieval).
PosOf(id) == CHOOSE k \in 1..Len(products) : products[k].product_id = id

IsDegraded(record) ==
    record.quality_flags \in {<<"Analysis incomplete">>, <<"Analysis failed">>}

\* C2: whatever retrieval returned and whatever each generation call did,
\* if metering and the output sink succeed the run completes without error
\* having pushed exactly one record per retrieved product (none for an
\* empty retrieval).
C2_OneRecordPerProduct ==
    /\ (pc = "failed" /\ scrape_calls > 0) =>
           error \in {"ChargeError", "PushError"}
    /\ pc = "done" =>
           /\ Len(pushed) = Len(products)
           /\ \A k \in 1..Len(products) :
                  Cardinality({i \in 1..Len(pushed) :
                      pushed[i].product_id = products[k].product_id}) = 1

\* C7: the pushed records are ordered non-increasing by virality_score,
\* records of equal score keep the order in which their products were
\* processed, and once the run is done they are the processed records, one
\* per product.
C7_RankedStable ==
    /\ \A i, j \in 1..Len(pushed) :
           i < j =>
               /\ pushed[i].virality_score >= pushed[j].virality_score
               /\ pushed[i].virality_score = pushed[j].virality_score =>
                      PosOf(pushed[i].product_id) < PosOf(pushed[j].product_id)
    /\ pc = "done" =>
           /\ Len(pushed) = Len(products)
           /\ \A k \in 1..Len(products) :
                  \E i \in 1..Len(pushed) :
                      /\ pushed[i].product_id = products[k].product_id
                      /\ pushed[i].sales_count = products[k].sales_count
                      /\ pushed[i].price = products[k].price

\* A finished run whose ranking moved a record and kept a tie in order.
C7_Witness ==
    /\ pc = "done"
    /\ Len(pushed) = 3
    /\ pushed[1].product_id = products[3].product_id
    /\ pushed[1].virality_score > pushed[2].virality_score
    /\ pushed[2].virality_score = pushed[3].virality_score
    /\ pushed[2].product_id = products[1].product_id

\* C8: one "product-analyzed" event of count 1 per analyzed product,
\* degraded or not: a completed run has as many events as retrieved
\* products, and there is none when retrieval is empty or the run aborts on
\* a configuration error.
C8_OneChargePerProduct ==
    /\ \A k \in 1..Len(charges) : charges[k] = ChargeEvent
    /\ pc \in {"analyze", "generating"} =>
           Len(charges) = Len(analyzed_products)
    /\ pc = "charge" => Len(charges) = Len(analyzed_products) - 1
    /\ pc \in {"push", "done"} => Len(charges) = Len(products)
    /\ error = "ValueError" => charges = <<>>
    /\ products = <<>> => charges = <<>>

\* A finished run that metered a failed, an incomplete and a genuine
\* analysis alike.
C8_Witness ==
    /\ pc = "done"
    /\ Len(charges) = 3
    /\ \E i \in 1..3 : pushed[i].quality_flags = <<"Analysis failed">>
    /\ \E i \in 1..3 : pushed[i].quality_flags = <<"Analysis incomplete">>
    /\ \E i \in 1..3 : ~IsDegraded(pushed[i])

\* The resolved credential of the selected backend.
SelectedKey ==
    CASE ai_provider = "anthropic" -> anthropic_key
      [] ai_provider = "openai" -> openai_key
      [] ai_provider = "openrouter" -> openrouter_key
      [] OTHER -> KeyNone

\* C9: a known backend selected without its own credential (absent or
\* empty) is a fatal configuration error before any retrieval, generation
\* call, metering event or push; with its credential present the run never
\* fails on configuration, whatever the other backends' credentials are.
C9_SelectedCredentialOnly ==
    /\ (ai_provider \in KnownProviders /\ Falsy(SelectedKey)) =>
           /\ pc = "failed"
           /\ error = "ValueError"
           /\ scrape_calls = 0
           /\ gen_calls = 0
           /\ charges = <<>>
           /\ pushed = <<>>
    /\ (ai_provider \in KnownProviders /\ ~Falsy(SelectedKey)) =>
           error # "ValueError"

\* The selected backend's credential is empty while another backend has one.
C9_Witness ==
    /\ pc = "failed"
    /\ error = "ValueError"
    /\ ai_provider = "openai"
    /\ openai_key = ""
    /\ anthropic_key = "sk-live"

\* C15: products are processed one after the other in retrieval order: a
\* generation call starts only when every earlier product has been analyzed,
\* combined and charged, so at most one call is in flight; retrieval has
\* happened exactly once before the first call; nothing is pushed before
\* every product has been analyzed and charged.
C15_StrictlySequential ==
    /\ gen_calls - gen_returned \in {0, 1}
    /\ gen_calls > gen_returned => pc = "generating"
    /\ pc = "generating" =>
           /\ gen_returned = Len(analyzed_products)
           /\ Len(charges) = Len(analyzed_products)
    /\ scrape_calls <= 1
    /\ gen_calls > 0 => scrape_calls = 1
    /\ pc \in {"analyze", "generating", "charge"} =>
           \A k \in 1..Len(analyzed_products) :
               analyzed_products[k].product_id = products[k].product_id
    /\ pushed # <<>> =>
           /\ Len(analyzed_products) = Len(products)
           /\ Len(charges) = Len(products)
           /\ gen_returned = Len(products)

\* The third generation call is in flight, two products done and charged.
C15_Witness ==
    /\ pc = "generating"
    /\ gen_calls = 3
    /\ Len(analyzed_products) = 2
    /\ Len(charges) = 2
    /\ scrape_calls = 1

\* C16: a run whose ai_provider is none of anthropic, openai and openrouter
\* is rejected as a configuration error before retrieval, whatever retrieval
\* would have returned: it never performs retrieval and never completes.
C16_UnknownProviderRejectedFirst ==
    (pc # "start" /\ ai_provider \notin KnownProviders) =>
        /\ scrape_calls = 0
        /\ pc # "done"
        /\ pc = "failed" => error = "ValueError"

-----------------------------------------------------------------------------
(* Properties of the scraper, checked under SpecScraper.                   *)

\* Fixture positions whose sales reach the threshold.
FixtureKept(min_sales) ==
    {k \in 1..Len(mock_products("")) :
        mock_products("")[k].sales_count >= min_sales}

\* C10: scrape() never raises and returns at most max_products products,
\* each with sales_count >= min_sales; when the live source is unavailable
\* the result is the fixture filtered by the threshold, then cut to the
\* first max_products, in fixture order.
C10_ScrapeBoundedAndFiltered ==
    s_pc = "returned" =>
        LET value == s_result.value
            kept == FixtureKept(s_self.min_sales)
        IN  /\ s_result.raised = "none"
            /\ Len(value) <= s_self.max_products
            /\ \A i \in 1..Len(value) :
                   value[i].sales_count >= s_self.min_sales
            /\ s_live.kind # "items" =>
                   /\ Len(value) =
                          IF Cardinality(kept) < s_self.max_products
                          THEN Cardinality(kept) ELSE s_self.max_products
                   /\ \A i \in 1..Len(value) :
                          \E k \in kept :
                              /\ value[i] =
                                     mock_products(s_self.category)[k]
                              /\ Cardinality({m \in kept : m < k}) = i - 1

\* The live source raised; the fixture is both filtered and cut.
C10_Witness ==
    /\ s_pc = "returned"
    /\ s_live.kind = "exception"
    /\ s_self.min_sales = 10000
    /\ s_self.max_products = 2
    /\ Len(s_result.value) = 2
    /\ s_result.value[2].product_id = "mock_003"


-----------------------------------------------------------------------------
(* Properties of the data models and the prompt builder, checked under     *)
(* SpecModels.                                                             *)

Abs(n) == IF n < 0 THEN -n ELSE n

ProductFields ==
    {"product_id", "product_title", "product_url", "price", "original_price",
     "sales_count", "rating", "review_count", "shop_name", "category",
     "image_url"}

\* C11: the combined record has no discount when the original price is absent
\* or not above the price; otherwise its discount is the tenth of a percent
\* nearest to (1 - price/original_price) * 100; every other field is the
\* product's or the analysis's value.
C11_DiscountAndFieldsPreserved ==
    m_pc = "combined" =>
        LET product == m_in.product
            analysis == m_in.analysis
            p == product.price
            o == product.original_price
            d == m_out.discount_percentage
        IN  /\ (o = NoPrice \/ o <= p) => d = NoDiscount
            /\ (o # NoPrice /\ o > p) =>
                   /\ d # NoDiscount
                   /\ 2 * Abs(d * o - (o - p) * 1000) <= o
            /\ \A f \in ProductFields : m_out[f] = product[f]
            /\ \A f \in AllFields : m_out[f] = analysis[f]

\* 1 - 24.99/29.99 is 16.67 percent, rounded up to 16.7.
C11_Witness ==
    /\ m_pc = "combined"
    /\ m_in.product.price = 2499
    /\ m_in.product.original_price = 2999
    /\ m_out.discount_percentage = 167
    /\ m_out.virality_score = 85

\* C12: constructing an analysis fails when the score is below 0 or above
\* 100 and succeeds, keeping the score as given, for every score from 0 up to
\* 100, both ends included.
C12_ScoreRangeEnforced ==
    m_pc = "constructed" =>
        LET score == m_in.virality_score
        IN  /\ (score < 0 \/ score > 100) => m_out.raised = "ValidationError"
            /\ (score >= 0 /\ score <= 100) =>
                   /\ m_out.raised = "none"
                   /\ m_out.value.virality_score = score

C12_Witness ==
    /\ m_pc = "constructed"
    /\ m_in.virality_score = 100
    /\ m_out.raised = "none"
    /\ m_out.value.virality_score = 100

\* C13: the prompt carries the rating whenever the product has one and "N/A"
\* only when it has none; the category whenever the product has one and
\* "Unknown" only when it has none; the first min(10, n) reviews in order,
\* each after "- " on a line of its own; and "No reviews available" exactly
\* when the product has no review.
C13_PromptEmbedsFields ==
    m_pc = "formatted" =>
        LET n == Len(m_in.reviews)
            k == IF n < 10 THEN n ELSE 10
        IN  /\ m_in.rating # NoRating => m_out.rating = RenderTenths(m_in.rating)
            /\ m_in.rating = NoRating => m_out.rating = <<"N/A">>
            /\ m_in.category # NoneStr => m_out.category = m_in.category
            /\ m_in.category = NoneStr => m_out.category = "Unknown"
            /\ n = 0 <=> m_out.reviews = <<"No reviews available">>
            /\ n > 0 =>
                   /\ Len(m_out.reviews) = 3 * k - 1
                   /\ \A i \in 1..k :
                          /\ m_out.reviews[3 * i - 2] = "- "
                          /\ m_out.reviews[3 * i - 1] = m_in.reviews[i]
                          /\ i < k => m_out.reviews[3 * i] = "\n"

\* C14: an input built from nothing has category "Kitchen Gadgets", 10
\* products at most and the provider "anthropic".
C14_ActorInputDefaults ==
    (m_pc = "configured" /\ m_in.given = {}) =>
        /\ m_out.raised = "none"
        /\ m_out.value.category = "Kitchen Gadgets"
        /\ m_out.value.max_products = 10
        /\ m_out.value.ai_provider = "anthropic"

====
